---- MODULE Spec2Model ----
(***************************************************************************)
(* Voting-rule tabulation of uvpd (src/uvpd/rules.py) over ballots drawn   *)
(* from the permutation table of src/uvpd/preference.py.                   *)
(*                                                                         *)
(* A ballot (one row of the preference array) is a function from the       *)
(* positions 0..4 to the candidates 0..4; a preference array is a sequence *)
(* of rows (row r of the numpy array is element r+1 of the sequence).      *)
(***************************************************************************)
EXTENDS Integers, Sequences, FiniteSets, TLC

\* ------------------------------------------------------------------ constants

\* Number of candidates (Candidate = int  # 0..4).
K == 5

\* Number of rows of the permutation table (perms.shape == (120, 5)).
NumPerms == 120

\* Optional[Candidate]: the absent winner (Python None); no candidate id.
None == -1

\* Bounds of the model: rows per preference array, distinct table rows drawn.
MaxVoters == 5

NumIdx == 5

\* Bound of the arrays handed to the rules from outside the generator.
MaxRawVoters == 2

\* Bounds of the simulator runs: SimulationConfig.max_voters (steps per run)
\* and the distinct table rows the generator draws in a run.
max_voters == 3

SimIdx == 2

\* The run ids of "for run_id in range(1, runs + 1)", for runs = 2.
RunIds == {1, 2}

\* SimulationConfig.runs
runs == Cardinality(RunIds)

Candidates == 0 .. (K - 1)

Positions == 0 .. (K - 1)

\* ------------------------------------------------------------------ ballots

RECURSIVE Factorial(_)
Factorial(m) == IF m <= 1 THEN 1 ELSE m * Factorial(m - 1)

\* The idx-th permutation of avail (an ascending sequence) in the
\* lexicographic order itertools.permutations produces.
RECURSIVE Unrank(_, _)
Unrank(avail, idx) ==
    IF Len(avail) = 0 THEN <<>>
    ELSE LET f    == Factorial(Len(avail) - 1)
             q    == idx \div f
             rest == [i \in 1 .. (Len(avail) - 1) |->
                        IF i <= q THEN avail[i] ELSE avail[i + 1]]
         IN  <<avail[q + 1]>> \o Unrank(rest, idx % f)

\* self._perms[idx]: row idx of the table of all 120 permutations of range(5).
perms(idx) ==
    LET s == Unrank([i \in 1 .. K |-> i - 1], idx)
    IN  [pos \in Positions |-> s[pos + 1]]

\* The outcomes of rng.integers(0, 120) the model draws: NumIdx indices
\* spread over the table (stride 29 is coprime to 120, so each further index
\* is a new row, and consecutive rows differ in their first choice).
SampleIdx == {(i * 29) % NumPerms : i \in 0 .. (NumIdx - 1)}

\* PreferenceGenerator.sample(1): the rows it can return within the bound.
sample == {perms(idx) : idx \in SampleIdx}

\* The preference arrays of 0..MaxVoters rows.
PreferenceArrays == UNION {[1 .. n -> sample] : n \in 0 .. MaxVoters}

\* ------------------------------------------------------------------ numpy helpers

\* preferences[:, pos]
Column(preferences, pos) ==
    [row \in 1 .. Len(preferences) |-> preferences[row][pos]]

\* np.bincount(xs, minlength=5) for xs with values in 0..4
bincount(xs) ==
    [c \in Candidates |-> Cardinality({i \in DOMAIN xs : xs[i] = c})]

\* v.max() of a vector indexed by candidates
VecMax(v) == CHOOSE m \in {v[c] : c \in Candidates} : \A c \in Candidates : v[c] <= m

\* v.sum()
RECURSIVE VecSumFrom(_, _)
VecSumFrom(v, c) == IF c >= K THEN 0 ELSE v[c] + VecSumFrom(v, c + 1)

VecSum(v) == VecSumFrom(v, 0)

\* np.flatnonzero(v == x)
flatnonzero_eq(v, x) == {c \in Candidates : v[c] = x}

\* np.argmax(v): the first index holding the maximum
argmax(v) ==
    CHOOSE c \in Candidates :
        /\ v[c] = VecMax(v)
        /\ \A d \in Candidates : d < c => v[d] # VecMax(v)

\* ------------------------------------------------------------------ rules

\* A tie-break that lets the higher index win.
alphabetical_tiebreak_high(candidates) ==
    CHOOSE c \in candidates : \A d \in candidates : d <= c

\* _alphabetical_tiebreak: int(min(candidates))
alphabetical_tiebreak(candidates) ==
    CHOOSE c \in candidates : \A d \in candidates : c <= d

\* A plurality count that reports no winner when no ballot was cast.
PluralityRule_compute_novotes(preferences) ==
    LET first_choices == Column(preferences, 0)
        counts        == bincount(first_choices)
        max_count     == VecMax(counts)
        tied          == flatnonzero_eq(counts, max_count)
        winner        == IF max_count = 0 THEN None ELSE alphabetical_tiebreak(tied)
    IN  [winner |-> winner,
         aux    |-> [counts |-> counts, tie |-> Cardinality(tied) > 1]]

\* A plurality count that resolves a tie to the tied candidate whose first
\* ballot comes first in the array.
PluralityRule_compute_first_seen(preferences) ==
    LET first_choices == Column(preferences, 0)
        counts        == bincount(first_choices)
        max_count     == VecMax(counts)
        tied          == flatnonzero_eq(counts, max_count)
        seen          == {row \in DOMAIN first_choices : first_choices[row] \in tied}
        winner        == IF seen = {} THEN alphabetical_tiebreak(tied)
                         ELSE first_choices[CHOOSE row \in seen : \A r \in seen : row <= r]
    IN  [winner |-> winner,
         aux    |-> [counts |-> counts, tie |-> Cardinality(tied) > 1]]

\* PluralityRule.compute
PluralityRule_compute(preferences) ==
    LET first_choices == Column(preferences, 0)
        counts        == bincount(first_choices)
        max_count     == VecMax(counts)
        tied          == flatnonzero_eq(counts, max_count)
        winner        == alphabetical_tiebreak(tied)
    IN  [winner |-> winner,
         aux    |-> [counts |-> counts, tie |-> Cardinality(tied) > 1]]

\* Points that grow with the position: 0, 1, 2, 3, 4.
position_points_reversed == [pos \in Positions |-> pos]

\* Points that start at K: 5, 4, 3, 2, 1.
position_points_from_K == [pos \in Positions |-> K - pos]

\* position_points = np.array([4, 3, 2, 1, 0])
position_points == [pos \in Positions |-> (K - 1) - pos]

\* The loop "for pos in range(5): scores += bincount(preferences[:, pos]) * points"
RECURSIVE BordaScoresFrom(_, _, _)
BordaScoresFrom(preferences, pos, scores) ==
    IF pos >= K THEN scores
    ELSE LET cands_at_pos == Column(preferences, pos)
             points       == position_points[pos]
             counts       == bincount(cands_at_pos)
         IN  BordaScoresFrom(preferences, pos + 1,
                             [c \in Candidates |-> scores[c] + counts[c] * points])

\* BordaRule.compute
BordaRule_compute(preferences) ==
    LET n         == Len(preferences)
        scores    == BordaScoresFrom(preferences, 0, [c \in Candidates |-> 0])
        max_score == VecMax(scores)
        tied      == flatnonzero_eq(scores, max_score)
        winner    == alphabetical_tiebreak(tied)
    IN  [winner |-> winner,
         aux    |-> [scores                |-> scores,
                     total_points          |-> VecSum(scores),
                     expected_total_points |-> n * 10,
                     tie                   |-> Cardinality(tied) > 1]]

\* Ranks that take the row itself for the rank vector (ranks[row, pos] = cand).
ranks_transposed(preferences) ==
    [row \in 1 .. Len(preferences) |->
        [cand \in Candidates |-> preferences[row][cand]]]

\* ranks[row, cand] = pos  for  preferences[row][pos] = cand
ranks(preferences) ==
    [row \in 1 .. Len(preferences) |->
        [cand \in Candidates |->
            CHOOSE pos \in Positions : preferences[row][pos] = cand]]

\* A pairwise count that also counts a row ranking a right below b.
wins_or_next_below(preferences) ==
    LET rk == ranks(preferences)
    IN  [a \in Candidates |-> [b \in Candidates |->
            IF a = b THEN 0
            ELSE Cardinality({row \in 1 .. Len(preferences) : rk[row][a] <= rk[row][b] + 1})]]

\* wins[a, b] = number of rows ranking a above b; the diagonal stays zero
wins(preferences) ==
    LET rk == ranks(preferences)
    IN  [a \in Candidates |-> [b \in Candidates |->
            IF a = b THEN 0
            ELSE Cardinality({row \in 1 .. Len(preferences) : rk[row][a] < rk[row][b]})]]

\* A Condorcet test that accepts a pairwise tie (>= for >).
CondorcetRule_compute_weak(preferences) ==
    LET n         == Len(preferences)
        w         == wins(preferences)
        beats_all == {a \in Candidates :
                        \A b \in Candidates \ {a} : w[a][b] >= (n - w[a][b])}
        winner    == IF Cardinality(beats_all) = 1
                     THEN CHOOSE a \in beats_all : TRUE
                     ELSE None
    IN  [winner |-> winner, aux |-> [wins |-> w]]

\* CondorcetRule.compute
CondorcetRule_compute(preferences) ==
    LET n         == Len(preferences)
        w         == wins(preferences)
        beats_all == {a \in Candidates :
                        \A b \in Candidates \ {a} : w[a][b] > (n - w[a][b])}
        winner    == IF Cardinality(beats_all) = 1
                     THEN CHOOSE a \in beats_all : TRUE
                     ELSE None
    IN  [winner |-> winner, aux |-> [wins |-> w]]

\* ------------------------------------------------------------------ IRV

\* np.ones(5, dtype=bool)
AllActive == [c \in Candidates |-> TRUE]

\* active.sum()
ActiveCount(active) == Cardinality({c \in Candidates : active[c]})

\* A scan with the test inverted: the first cand of the row that is not active.
RowChoice_inverted(row, active) ==
    IF \E pos \in Positions : ~active[row[pos]]
    THEN LET p == CHOOSE pos \in Positions :
                      /\ ~active[row[pos]]
                      /\ \A q \in Positions : q < pos => active[row[q]]
         IN  <<row[p]>>
    ELSE <<>>

\* A scan that takes the head of the row whether it is active or not.
RowChoice_top_only(row, active) == <<row[0]>>

\* The inner scan of one row: the first cand of the row with active[cand];
\* a row with no active candidate contributes nothing.
RowChoice(row, active) ==
    IF \E pos \in Positions : active[row[pos]]
    THEN LET p == CHOOSE pos \in Positions :
                      /\ active[row[pos]]
                      /\ \A q \in Positions : q < pos => ~active[row[q]]
         IN  <<row[p]>>
    ELSE <<>>

\* first_choices after the loop over rows row..n
RECURSIVE FirstChoicesFrom(_, _, _)
FirstChoicesFrom(preferences, active, row) ==
    IF row > Len(preferences) THEN <<>>
    ELSE RowChoice(preferences[row], active)
            \o FirstChoicesFrom(preferences, active, row + 1)

\* An elimination that forgets the "active[c] and" filter of cands_min.
irv_elim_unfiltered(active, counts) ==
    LET min_count == CHOOSE m \in {counts[c] : c \in {d \in Candidates : active[d]}} :
                        \A c \in Candidates : active[c] => m <= counts[c]
        cands_min == {c \in Candidates : counts[c] = min_count}
    IN  alphabetical_tiebreak(cands_min)

\* An elimination that resolves a tie at the minimum to the highest id.
irv_elim_high(active, counts) ==
    LET min_count == CHOOSE m \in {counts[c] : c \in {d \in Candidates : active[d]}} :
                        \A c \in Candidates : active[c] => m <= counts[c]
        cands_min == {c \in Candidates : active[c] /\ counts[c] = min_count}
    IN  alphabetical_tiebreak_high(cands_min)

\* min_count, cands_min, elim: the candidate an elimination step removes,
\* given the round's counts.
irv_elim(active, counts) ==
    LET min_count == CHOOSE m \in {counts[c] : c \in {d \in Candidates : active[d]}} :
                        \A c \in Candidates : active[c] => m <= counts[c]
        cands_min == {c \in Candidates : active[c] /\ counts[c] = min_count}
    IN  alphabetical_tiebreak(cands_min)

\* A deactivation that leaves active as it was.
irv_deactivate_noop(active, elim) == active

\* active[elim] = False
irv_deactivate(active, elim) == [active EXCEPT ![elim] = FALSE]

\* An append that drops the eliminated candidate.
irv_append_lost(elimination_order, elim) == elimination_order

\* elimination_order.append(int(elim))
irv_append(elimination_order, elim) == Append(elimination_order, elim)

\* A majority test that asks for more than two thirds of the votes.
irv_majority_two_thirds(counts, total_active_votes) ==
    VecMax(counts) * 3 > total_active_votes * 2

\* A majority test that accepts exactly half of the votes (>= for >).
irv_majority_weak(counts, total_active_votes) == VecMax(counts) * 2 >= total_active_votes

\* The strict-majority test of a round.
irv_majority(counts, total_active_votes) == VecMax(counts) * 2 > total_active_votes

\* One iteration of the "while True" loop of IRVRule.compute, from the
\* loop state (active, elimination_order). done says whether the iteration
\* returns and exit names the return statement taken ("empty": no first
\* choices, "zero": zero active votes, "majority", "last": one candidate
\* remains); winner and counts are the returned RuleResult's.
IRVIteration(preferences, active, elimination_order) ==
    LET first_choices == FirstChoicesFrom(preferences, active, 1)
        NoCounts      == [c \in Candidates |-> 0]
    IN  IF first_choices = <<>>
        THEN [done |-> TRUE, exit |-> "empty", winner |-> None, counts |-> NoCounts,
              active |-> active, elimination_order |-> elimination_order]
        ELSE
        LET counts             == bincount(first_choices)
            total_active_votes == VecSum(counts)
        IN  IF total_active_votes = 0
            THEN [done |-> TRUE, exit |-> "zero", winner |-> None, counts |-> NoCounts,
                  active |-> active, elimination_order |-> elimination_order]
            ELSE IF irv_majority(counts, total_active_votes)
            THEN [done |-> TRUE, exit |-> "majority", winner |-> argmax(counts),
                  counts |-> counts,
                  active |-> active, elimination_order |-> elimination_order]
            ELSE
            LET elim    == irv_elim(active, counts)
                active2 == irv_deactivate(active, elim)
                order2  == irv_append(elimination_order, elim)
            IN  IF ActiveCount(active2) = 1
                THEN [done |-> TRUE, exit |-> "last",
                      winner |-> CHOOSE c \in Candidates : active2[c],
                      counts |-> counts,
                      active |-> active2, elimination_order |-> order2]
                ELSE [done |-> FALSE, exit |-> "continue", winner |-> None,
                      counts |-> counts,
                      active |-> active2, elimination_order |-> order2]

\* The RuleResult a returning iteration builds: aux holds the round's counts
\* only when a winner is returned; exit is carried along to tell the return
\* statements apart.
IRVResult(it) ==
    [winner |-> it.winner,
     aux    |-> IF it.winner = None
                THEN [exit |-> it.exit, elimination_order |-> it.elimination_order]
                ELSE [exit |-> it.exit, elimination_order |-> it.elimination_order,
                      counts |-> it.counts]]

\* IRVRule.compute as a function: the loop run to its return.
RECURSIVE IRVLoop(_, _, _)
IRVLoop(preferences, active, elimination_order) ==
    LET it == IRVIteration(preferences, active, elimination_order)
    IN  IF it.done
        THEN IRVResult(it)
        ELSE IRVLoop(preferences, it.active, it.elimination_order)

IRVRule_compute(preferences) == IRVLoop(preferences, AllActive, <<>>)

\* ------------------------------------------------------------------ simulator

\* CandidateSet.labels
labels == <<"A", "B", "C", "D", "E">>

\* The value orjson writes for a Python None: JSON null.
Null == "null"

\* A label lookup guarded by truthiness ("if w" for "if w is not None").
winner_label_truthy(w) == IF w # None /\ w # 0 THEN labels[w + 1] ELSE Null

\* labels[w] if w is not None else None
winner_label(w) == IF w # None THEN labels[w + 1] ELSE Null

\* ProgressiveSimulator._compute_winners
compute_winners(prefs) ==
    LET pl == PluralityRule_compute(prefs).winner
        bd == BordaRule_compute(prefs).winner
        cd == CondorcetRule_compute(prefs).winner
        ir == IRVRule_compute(prefs).winner
    IN  [plurality |-> winner_label(pl),
         borda     |-> winner_label(bd),
         condorcet |-> winner_label(cd),
         irv       |-> winner_label(ir)]

\* The rows PreferenceGenerator.sample(1) returns in a simulator run.
sim_sample == {perms((i * 29) % NumPerms) : i \in 0 .. (SimIdx - 1)}

\* A stacking that puts the new row on top.
vstack_front(prefs_all, new_pref) == <<new_pref>> \o prefs_all

\* np.vstack([prefs_all, new_pref]) for the one-row array new_pref
vstack(prefs_all, new_pref) == Append(prefs_all, new_pref)

\* A record whose winners are tabulated from the newest ballot alone.
step_record_newest_only(run_id, step, prefs_all) ==
    [run_id            |-> run_id,
     step              |-> step,
     voter_preferences |-> prefs_all,
     winners           |-> compute_winners(SubSeq(prefs_all, Len(prefs_all), Len(prefs_all)))]

\* The record of one step (the timestamp is left out: no rule, step or file
\* structure depends on it).
step_record(run_id, step, prefs_all) ==
    [run_id            |-> run_id,
     step              |-> step,
     voter_preferences |-> prefs_all,
     winners           |-> compute_winners(prefs_all)]

\* A run file is absent, or holds the bytes written so far as a sequence of
\* tokens: "[" (start_run), "obj" with the record orjson.dumps serialised,
\* "," (the separator b",\n") and "]" (b"]\n" of end_run).
Token(t, v) == [t |-> t, v |-> v]

NoFile == [exists |-> FALSE, content |-> <<>>]

\* DataRecorder.start_run: open(fpath, "wb") truncates or creates the file
start_run(file) == [exists |-> TRUE, content |-> <<Token("[", <<>>)>>]

\* An append that writes the separator after every record.
append_step_always_separator(file, record, is_last) ==
    [exists  |-> TRUE,
     content |-> file.content \o <<Token("obj", record), Token(",", <<>>)>>]

\* DataRecorder.append_step: open(fpath, "ab") appends (and creates)
append_step(file, record, is_last) ==
    [exists  |-> TRUE,
     content |-> file.content \o <<Token("obj", record)>>
                    \o (IF ~is_last THEN <<Token(",", <<>>)>> ELSE <<>>)]

\* DataRecorder.end_run
end_run(file) ==
    [exists |-> TRUE, content |-> Append(file.content, Token("]", <<>>))]

\* An existence test that takes only a file closed by end_run for a run
\* that exists.
run_exists_closed(files, run_id) ==
    /\ files[run_id].exists
    /\ files[run_id].content # <<>>
    /\ files[run_id].content[Len(files[run_id].content)].t = "]"

\* ProgressiveSimulator._run_exists
run_exists(files, run_id) == files[run_id].exists

\* ------------------------------------------------------------------ state

\* Under Spec one behaviour is one call of one rule on one preference array;
\* under SimSpec one behaviour is one call of ProgressiveSimulator.run.
VARIABLES
    preferences,        \* the preference array the rule is applied to
    pc,                 \* rules: "call": no rule called yet; "irv":
                        \* IRVRule.compute is at the head of its loop; "done":
                        \* the rule has returned.  simulator: "loop": run() is
                        \* at the head of its loop over run ids; "step":
                        \* _run_single is at the head of its loop over steps;
                        \* "exit": run() has returned
    active,             \* IRVRule.compute: active
    elimination_order,  \* IRVRule.compute: elimination_order
    result,             \* the RuleResult returned, tagged with its rule
    files,              \* data/raw/run_NNNN.json, by run id
    resume,             \* SimulationConfig.resume
    run_id,             \* run(): run_id
    step,               \* _run_single: step
    prefs_all           \* _run_single: prefs_all

rulevars == <<preferences, active, elimination_order, result>>

simvars == <<files, resume, run_id, step, prefs_all>>

vars == <<preferences, pc, active, elimination_order, result,
          files, resume, run_id, step, prefs_all>>

NoResult == [rule |-> "none", winner |-> None, aux |-> <<>>]

\* The simulator before run() is called: no run file, resume at its default.
SimIdle ==
    /\ files = [r \in RunIds |-> NoFile]
    /\ resume = TRUE
    /\ run_id = 1
    /\ step = 1
    /\ prefs_all = <<>>

Init ==
    /\ preferences \in PreferenceArrays
    /\ pc = "call"
    /\ active = AllActive
    /\ elimination_order = <<>>
    /\ result = NoResult
    /\ SimIdle

\* A returned RuleResult(winner, aux), tagged with the rule that returned it.
Returned(rule, r) == [rule |-> rule, winner |-> r.winner, aux |-> r.aux]

\* PluralityRule.compute(preferences)
Plurality ==
    /\ pc = "call"
    /\ pc' = "done"
    /\ result' = Returned("plurality", PluralityRule_compute(preferences))
    /\ UNCHANGED <<preferences, active, elimination_order>>
    /\ UNCHANGED simvars

\* BordaRule.compute(preferences)
Borda ==
    /\ pc = "call"
    /\ pc' = "done"
    /\ result' = Returned("borda", BordaRule_compute(preferences))
    /\ UNCHANGED <<preferences, active, elimination_order>>
    /\ UNCHANGED simvars

\* CondorcetRule.compute(preferences)
Condorcet ==
    /\ pc = "call"
    /\ pc' = "done"
    /\ result' = Returned("condorcet", CondorcetRule_compute(preferences))
    /\ UNCHANGED <<preferences, active, elimination_order>>
    /\ UNCHANGED simvars

\* IRVRule.compute(preferences): entry, up to the head of the loop
IRVCall ==
    /\ pc = "call"
    /\ pc' = "irv"
    /\ active' = AllActive
    /\ elimination_order' = <<>>
    /\ UNCHANGED <<preferences, result>>
    /\ UNCHANGED simvars

\* IRVRule.compute(preferences): one iteration of the loop
IRVRound ==
    /\ pc = "irv"
    /\ LET it == IRVIteration(preferences, active, elimination_order)
       IN  /\ active' = it.active
           /\ elimination_order' = it.elimination_order
           /\ pc' = IF it.done THEN "done" ELSE "irv"
           /\ result' = IF it.done THEN Returned("irv", IRVResult(it)) ELSE NoResult
    /\ UNCHANGED preferences
    /\ UNCHANGED simvars

Next == Plurality \/ Borda \/ Condorcet \/ IRVCall \/ IRVRound

Spec == Init /\ [][Next]_vars

\* ------------------------------------------------------------------ rules called on arrays from outside

\* PreferenceArray is a bare np.ndarray: no rule and no caller tests that a
\* row is a permutation.  Rows of five ids of 0..4 with a repeated (hence a
\* missing) id.
Malformed ==
    {[pos \in Positions |-> <<0, 0, 1, 2, 3>>[pos + 1]],
     [pos \in Positions |-> <<4, 4, 4, 4, 4>>[pos + 1]]}

\* The arrays a caller can build, e.g. np.array(last["voter_preferences"])
\* of cmd_post on whatever the run file holds.
RawArrays == UNION {[1 .. n -> sample \cup Malformed] : n \in 0 .. MaxRawVoters}

ApiInit ==
    /\ preferences \in RawArrays
    /\ pc = "call"
    /\ active = AllActive
    /\ elimination_order = <<>>
    /\ result = NoResult
    /\ SimIdle

\* The rules whose code reads only the array on such rows.  CondorcetRule
\* is left out: for a missing id it reads cells of np.empty that were never
\* written.
ApiNext == Plurality \/ Borda \/ IRVCall \/ IRVRound

ApiSpec == ApiInit /\ [][ApiNext]_vars

\* ------------------------------------------------------------------ simulator runs

\* The simulator at the call of run(): the rules idle, each run file absent
\* or left behind by an earlier call that was stopped right after start_run.
SimInit ==
    /\ preferences = <<>>
    /\ active = AllActive
    /\ elimination_order = <<>>
    /\ result = NoResult
    /\ pc = "loop"
    /\ files \in [RunIds -> {NoFile, start_run(NoFile)}]
    /\ resume \in BOOLEAN
    /\ run_id = 1
    /\ step = 1
    /\ prefs_all = <<>>

\* run(): "if self.config.resume and self._run_exists(run_id): continue"
RunSkip ==
    /\ pc = "loop"
    /\ run_id <= runs
    /\ resume /\ run_exists(files, run_id)
    /\ run_id' = run_id + 1
    /\ UNCHANGED <<pc, files, resume, step, prefs_all>>
    /\ UNCHANGED rulevars

\* run() calls _run_single(run_id): start_run and the empty prefs_all
RunStart ==
    /\ pc = "loop"
    /\ run_id <= runs
    /\ ~(resume /\ run_exists(files, run_id))
    /\ files' = [files EXCEPT ![run_id] = start_run(files[run_id])]
    /\ prefs_all' = <<>>
    /\ step' = 1
    /\ pc' = "step"
    /\ UNCHANGED <<resume, run_id>>
    /\ UNCHANGED rulevars

\* _run_single: one iteration of "for step in range(1, max_voters + 1)"
RunStep ==
    /\ pc = "step"
    /\ step <= max_voters
    /\ \E new_pref \in sim_sample :
          LET stacked == vstack(prefs_all, new_pref)
              record  == step_record(run_id, step, stacked)
          IN  /\ prefs_all' = stacked
              /\ files' = [files EXCEPT ![run_id] =
                              append_step(files[run_id], record, step = max_voters)]
    /\ step' = step + 1
    /\ UNCHANGED <<pc, resume, run_id>>
    /\ UNCHANGED rulevars

\* _run_single: the loop over steps is over; end_run, and run() goes to the
\* next run id
RunEnd ==
    /\ pc = "step"
    /\ step > max_voters
    /\ files' = [files EXCEPT ![run_id] = end_run(files[run_id])]
    /\ run_id' = run_id + 1
    /\ pc' = "loop"
    /\ UNCHANGED <<resume, step, prefs_all>>
    /\ UNCHANGED rulevars

\* run(): the loop over run ids is over
RunReturn ==
    /\ pc = "loop"
    /\ run_id > runs
    /\ pc' = "exit"
    /\ UNCHANGED <<files, resume, run_id, step, prefs_all>>
    /\ UNCHANGED rulevars

SimNext == RunSkip \/ RunStart \/ RunStep \/ RunEnd \/ RunReturn

SimSpec == SimInit /\ [][SimNext]_vars

\* ------------------------------------------------------------------ resumed calls

\* The file of run r after start_run and k steps of _run_single, every
\* sampled ballot being the first row of the table.
RECURSIVE FileAfter(_, _)
FileAfter(r, k) ==
    IF k = 0 THEN start_run(NoFile)
    ELSE append_step(FileAfter(r, k - 1),
                     step_record(r, k, [i \in 1 .. k |-> perms(0)]),
                     k = max_voters)

\* What an earlier call of run() can have left of run r: nothing, the file
\* of a run stopped after start_run or after any step, or the file of a run
\* that reached end_run.
Leftover(r) ==
    {NoFile}
        \cup {FileAfter(r, k) : k \in 0 .. max_voters}
        \cup {end_run(FileAfter(r, max_voters))}

\* The simulator at a call of run() with resume enabled, after earlier calls.
ResumeInit ==
    /\ preferences = <<>>
    /\ active = AllActive
    /\ elimination_order = <<>>
    /\ result = NoResult
    /\ pc = "loop"
    /\ files \in [RunIds -> UNION {Leftover(r) : r \in RunIds}]
    /\ \A r \in RunIds : files[r] \in Leftover(r)
    /\ resume = TRUE
    /\ run_id = 1
    /\ step = 1
    /\ prefs_all = <<>>

ResumeSpec == ResumeInit /\ [][SimNext]_vars

\* ------------------------------------------------------------------ properties

\* The rule that has returned, if any.
ReturnedBy(rule) == pc = "done" /\ result.rule = rule

Rows == 1 .. Len(preferences)

\* Number of ballots whose first choice (position 0) is c.
FirstChoiceBallots(c) == Cardinality({row \in Rows : preferences[row][0] = c})

\* The position candidate c holds on a ballot.
PositionOf(ballot, c) == CHOOSE p \in Positions : ballot[p] = c

\* Sum over the ballots row..n of (K - 1 - position of c).
RECURSIVE BallotPointsFrom(_, _)
BallotPointsFrom(c, row) ==
    IF row > Len(preferences) THEN 0
    ELSE ((K - 1) - PositionOf(preferences[row], c)) + BallotPointsFrom(c, row + 1)

\* Number of ballots ranking a above b.
Prefer(a, b) ==
    Cardinality({row \in Rows :
        \E p, q \in Positions :
            p < q /\ preferences[row][p] = a /\ preferences[row][q] = b})

\* The candidates that win every pairwise contest strictly.
PairwiseWinners ==
    LET prefer == [a \in Candidates |-> [b \in Candidates |-> Prefer(a, b)]]
    IN  {a \in Candidates : \A b \in Candidates \ {a} : prefer[a][b] > prefer[b][a]}

\* C1: PluralityRule.compute returns a defined winner, the smallest candidate
\* id among the candidates with the maximum number of first-choice ballots,
\* on every ballot set (the empty one and every tie included).
C1_PluralityWinner ==
    ReturnedBy("plurality") =>
        /\ result.winner \in Candidates
        /\ \A c \in Candidates :
              /\ FirstChoiceBallots(c) <= FirstChoiceBallots(result.winner)
              /\ FirstChoiceBallots(c) = FirstChoiceBallots(result.winner)
                    => result.winner <= c

\* C1 witness: a full 5-way tie resolved by PluralityRule.compute.
C1_Witness ==
    /\ ReturnedBy("plurality")
    /\ Len(preferences) = K
    /\ \A c \in Candidates : FirstChoiceBallots(c) = 1
    /\ result.winner = 0
    /\ result.aux.tie

\* C2: BordaRule.compute scores each candidate with the sum over the ballots
\* of (4 - p), p its position on the ballot, and returns a defined winner,
\* the smallest id among the candidates with the maximum score.
C2_BordaScores ==
    ReturnedBy("borda") =>
        LET points == [c \in Candidates |-> BallotPointsFrom(c, 1)]
        IN  /\ \A c \in Candidates : result.aux.scores[c] = points[c]
            /\ result.winner \in Candidates
            /\ \A c \in Candidates :
                  /\ points[c] <= points[result.winner]
                  /\ points[c] = points[result.winner] => result.winner <= c

\* C2 witness: a Borda tie at the top between candidates other than 0.
C2_Witness ==
    /\ ReturnedBy("borda")
    /\ Len(preferences) >= 3
    /\ result.aux.tie
    /\ result.winner > 0
    /\ \E c \in Candidates :
          c > result.winner /\ result.aux.scores[c] = result.aux.scores[result.winner]

\* C3: the Borda scores of the five candidates sum to n * 10, so total_points
\* equals expected_total_points.
C3_BordaTotal ==
    ReturnedBy("borda") =>
        /\ result.aux.total_points = Len(preferences) * 10
        /\ result.aux.total_points = result.aux.expected_total_points

\* C3 witness: Borda returned on a full-length ballot set with unequal scores.
C3_Witness ==
    /\ ReturnedBy("borda")
    /\ Len(preferences) = MaxVoters
    /\ result.aux.total_points > 0
    /\ ~result.aux.tie

\* C4: CondorcetRule.compute returns winner a iff a is the only candidate
\* with more ballots ranking it above b than b above it, for every other b;
\* in every other case it returns no winner.
C4_CondorcetWinner ==
    ReturnedBy("condorcet") =>
        LET winners == PairwiseWinners
        IN  /\ \A a \in Candidates : (result.winner = a) <=> (winners = {a})
            /\ (Cardinality(winners) # 1) <=> (result.winner = None)

\* C4 witness: no winner although no pairwise contest is tied (a cycle).
C4_Witness ==
    /\ ReturnedBy("condorcet")
    /\ result.winner = None
    /\ Len(preferences) >= 3
    /\ \A a, b \in Candidates : a # b => Prefer(a, b) # Prefer(b, a)

\* The candidates of a sequence.
Range(seq) == {seq[i] : i \in DOMAIN seq}

\* Number of ballots whose highest-ranked active candidate is c, for the
\* active flags of the current state.
TopActiveBallots(c) ==
    Cardinality({row \in Rows :
        \E p \in Positions :
            /\ preferences[row][p] = c
            /\ active[c]
            /\ \A q \in Positions : q < p => ~active[preferences[row][q]]})

\* Number of ballots that rank some active candidate.
ActiveBallots ==
    Cardinality({row \in Rows : \E p \in Positions : active[preferences[row][p]]})

\* The round about to be counted has votes but no strict-majority candidate.
RoundWithoutMajority ==
    /\ pc = "irv"
    /\ ActiveBallots > 0
    /\ \A c \in Candidates : ~(TopActiveBallots(c) * 2 > ActiveBallots)

\* C5: the IRVRule.compute loop terminates: every iteration that does not
\* return removes exactly one candidate from the active set (so the number
\* of active candidates, never below 2 at the head of the loop, strictly
\* decreases), and the call returns after at most 4 eliminations.
C5_IRVTerminates ==
    /\ [][(pc = "irv" /\ pc' = "irv") =>
            /\ \E c \in Candidates :
                  active[c] /\ active' = [active EXCEPT ![c] = FALSE]
            /\ ActiveCount(active') = ActiveCount(active) - 1
            /\ Len(elimination_order') = Len(elimination_order) + 1]_vars
    /\ [](pc = "irv" =>
            /\ ActiveCount(active) >= 2
            /\ ActiveCount(active) = K - Len(elimination_order))
    /\ [](ReturnedBy("irv") => Len(result.aux.elimination_order) <= K - 1)

\* C5 witness: a call that returned after the full 4 eliminations.
C5_Witness ==
    /\ ReturnedBy("irv")
    /\ Len(result.aux.elimination_order) = K - 1
    /\ Len(preferences) = 4

\* C6 as stated: whenever IRVRule.compute returns a winner, the winner
\* together with the elimination order is the full candidate set.
C6_Original ==
    (ReturnedBy("irv") /\ result.winner # None) =>
        {result.winner} \cup Range(result.aux.elimination_order) = Candidates

\* C6 amended: when IRVRule.compute returns a winner, the winner together
\* with the elimination order is the candidate set minus the other
\* candidates still active at the return; it is the full candidate set when
\* the winner is returned as the last active candidate.
C6_WinnerAndEliminated ==
    (ReturnedBy("irv") /\ result.winner # None) =>
        /\ {result.winner} \cup Range(result.aux.elimination_order)
              = Candidates \ {c \in Candidates : active[c] /\ c # result.winner}
        /\ result.aux.exit = "last" =>
              {result.winner} \cup Range(result.aux.elimination_order) = Candidates

\* C6 witness: a winner returned as the last active candidate.
C6_Witness ==
    /\ ReturnedBy("irv")
    /\ result.aux.exit = "last"
    /\ result.winner \in Candidates
    /\ Len(preferences) = 2

\* C7: the elimination order of IRVRule.compute holds no candidate twice,
\* has length at most 4, and never holds the returned winner.
C7_EliminationOrder ==
    /\ \A i, j \in DOMAIN elimination_order :
          i # j => elimination_order[i] # elimination_order[j]
    /\ Len(elimination_order) <= K - 1
    /\ ReturnedBy("irv") =>
          /\ result.aux.elimination_order = elimination_order
          /\ result.winner \notin Range(result.aux.elimination_order)

\* C7 witness: a majority winner returned after three eliminations.
C7_Witness ==
    /\ ReturnedBy("irv")
    /\ result.aux.exit = "majority"
    /\ Len(result.aux.elimination_order) = 3

\* C8: whenever a rule resolves a tie, the lower id wins it: the Plurality
\* and Borda winner is the lowest id among the tied leaders, and when the
\* last two active candidates of an IRV count have equal counts the IRV
\* winner is the lower id of the two.
C8_LowerIdWinsTies ==
    /\ ReturnedBy("plurality") =>
          \A c \in Candidates :
              result.aux.counts[c] = result.aux.counts[result.winner]
                  => result.winner <= c
    /\ ReturnedBy("borda") =>
          \A c \in Candidates :
              result.aux.scores[c] = result.aux.scores[result.winner]
                  => result.winner <= c
    /\ (ReturnedBy("irv") /\ Len(result.aux.elimination_order) = K - 1) =>
          LET other == result.aux.elimination_order[K - 1]
          IN  result.aux.counts[other] = result.aux.counts[result.winner]
                  => result.winner < other

\* C9: in every IRV round that ends without a majority winner, the candidate
\* eliminated is active, has the minimum count among the active candidates,
\* is the smallest id among those tied at the minimum, and is appended to the
\* elimination order; eliminated candidates are inactive in all later rounds.
C9_Elimination ==
    /\ [][RoundWithoutMajority =>
            \E e \in Candidates :
                /\ active[e]
                /\ \A c \in Candidates :
                      active[c] =>
                          /\ TopActiveBallots(e) <= TopActiveBallots(c)
                          /\ TopActiveBallots(e) = TopActiveBallots(c) => e <= c
                /\ elimination_order' = Append(elimination_order, e)
                /\ active' = [active EXCEPT ![e] = FALSE]]_vars
    /\ [][pc = "irv" => \A c \in Candidates : ~active[c] => ~active'[c]]_vars
    /\ [](pc = "irv" => \A c \in Range(elimination_order) : ~active[c])

\* C9 witness: the loop goes on after eliminating a candidate that had
\* first-choice ballots, chosen among several tied at the minimum.
C9_Witness ==
    /\ pc = "irv"
    /\ Len(elimination_order) = 3
    /\ FirstChoiceBallots(elimination_order[3]) > 0
    /\ \E c \in Candidates :
          /\ c > elimination_order[3]
          /\ active[c]
          /\ FirstChoiceBallots(c) = FirstChoiceBallots(elimination_order[3])

\* C10: on the empty ballot set PluralityRule and BordaRule return winner 0
\* with all-zero tallies, CondorcetRule returns no winner, and IRVRule
\* returns no winner with an empty elimination order.
C10_EmptyBallotSet ==
    (pc = "done" /\ preferences = <<>>) =>
        /\ result.rule = "plurality" =>
              /\ result.winner = 0
              /\ \A c \in Candidates : result.aux.counts[c] = 0
        /\ result.rule = "borda" =>
              /\ result.winner = 0
              /\ \A c \in Candidates : result.aux.scores[c] = 0
        /\ result.rule = "condorcet" => result.winner = None
        /\ result.rule = "irv" =>
              /\ result.winner = None
              /\ result.aux.elimination_order = <<>>

\* C10 witness: IRVRule.compute has returned on the empty ballot set.
C10_Witness ==
    /\ ReturnedBy("irv")
    /\ preferences = <<>>
    /\ result.winner = None

\* C11: IRVRule.compute returns no winner only for the empty ballot set: on
\* every non-empty ballot set of permutations the zero-active-votes exit is
\* never taken and a winner is returned.
C11_IRVWinnerUnlessEmpty ==
    ReturnedBy("irv") =>
        /\ (result.winner = None) <=> (preferences = <<>>)
        /\ result.aux.exit # "zero"
        /\ preferences # <<>> => result.aux.exit \in {"majority", "last"}

\* C11 witness: a majority winner returned for a full-length ballot set
\* after two eliminations.
C11_Witness ==
    /\ ReturnedBy("irv")
    /\ Len(preferences) = MaxVoters
    /\ result.aux.exit = "majority"
    /\ Len(result.aux.elimination_order) = 2
    /\ result.winner \in Candidates

\* C12: in an IRV round a candidate whose count c satisfies c * 2 > total is
\* returned as winner at once, with no elimination in that round; a round in
\* which no count exceeds half of the total (exactly half included) does not
\* return through the majority check and eliminates a candidate.
C12_MajorityFirst ==
    /\ [][(pc = "irv") =>
            \A c \in Candidates :
                TopActiveBallots(c) * 2 > ActiveBallots =>
                    /\ pc' = "done"
                    /\ result'.winner = c
                    /\ result'.aux.exit = "majority"
                    /\ result'.aux.elimination_order = elimination_order
                    /\ elimination_order' = elimination_order
                    /\ active' = active]_vars
    /\ [][RoundWithoutMajority =>
            /\ Len(elimination_order') = Len(elimination_order) + 1
            /\ pc' = "done" => result'.aux.exit = "last"]_vars

\* C12 witness: a round in which a candidate holds exactly half of the votes
\* has been counted, after an earlier elimination, and the loop goes on.
C12_Witness ==
    /\ pc = "irv"
    /\ Len(elimination_order) = 2
    /\ \E c \in Candidates :
          /\ ~active[elimination_order[2]]
          /\ FirstChoiceBallots(c) * 2 = Len(preferences)
          /\ FirstChoiceBallots(c) > 0
          /\ active[c]

\* The array with rows i and i+1 exchanged. Every reordering of an array is
\* a chain of such exchanges, and every array within the bounds is checked.
SwapRows(arr, i) ==
    [r \in 1 .. Len(arr) |->
        IF r = i THEN arr[i + 1] ELSE IF r = i + 1 THEN arr[i] ELSE arr[r]]

\* PluralityRule.compute returns the same winner with any two neighbouring
\* ballots exchanged.
PluralityOrderIndependent ==
    \A i \in 1 .. (Len(preferences) - 1) :
        PluralityRule_compute(SwapRows(preferences, i)).winner = result.winner

\* C18 as stated: the Plurality winner does not depend on the order of the
\* ballots, and an exact first-choice tie between candidates 1 and 2 with no
\* candidate higher resolves to 1.
C18_Original ==
    ReturnedBy("plurality") =>
        /\ PluralityOrderIndependent
        /\ (/\ FirstChoiceBallots(1) = FirstChoiceBallots(2)
            /\ \A c \in Candidates : FirstChoiceBallots(c) <= FirstChoiceBallots(1))
              => result.winner = 1

\* C18 amended: the Plurality winner does not depend on the order of the
\* ballots, and an exact first-choice tie between candidates 1 and 2 with
\* every other candidate strictly lower resolves to 1.
C18_OrderIndependentTie ==
    ReturnedBy("plurality") =>
        /\ PluralityOrderIndependent
        /\ (/\ FirstChoiceBallots(1) = FirstChoiceBallots(2)
            /\ \A c \in Candidates \ {1, 2} :
                  FirstChoiceBallots(c) < FirstChoiceBallots(1))
              => result.winner = 1

\* C18 witness: candidates 1 and 2 lead with two first choices each, a
\* ballot for 2 coming first, and Plurality has returned.
C18_Witness ==
    /\ ReturnedBy("plurality")
    /\ Len(preferences) = 5
    /\ preferences[1][0] = 2
    /\ FirstChoiceBallots(1) = 2
    /\ FirstChoiceBallots(2) = 2
    /\ result.winner = 1

\* C19: on a single ballot all four rules return its position-0 candidate:
\* the Borda scores are 4, 3, 2, 1, 0 by position, the top candidate wins
\* every Condorcet contest 1 to 0, and IRV returns it by majority in the
\* first round with an empty elimination order.
C19_SingleBallot ==
    (pc = "done" /\ Len(preferences) = 1) =>
        LET ballot == preferences[1]
            top    == ballot[0]
        IN  /\ result.winner = top
            /\ result.rule = "plurality" => result.aux.counts[top] = 1
            /\ result.rule = "borda" =>
                  \A pos \in Positions : result.aux.scores[ballot[pos]] = 4 - pos
            /\ result.rule = "condorcet" =>
                  \A b \in Candidates \ {top} :
                      result.aux.wins[top][b] = 1 /\ result.aux.wins[b][top] = 0
            /\ result.rule = "irv" =>
                  /\ result.aux.exit = "majority"
                  /\ result.aux.elimination_order = <<>>
                  /\ elimination_order = <<>>

\* C19 witness: CondorcetRule.compute has returned on the single ballot
\* [2, 1, 4, 0, 3].
C19_Witness ==
    /\ ReturnedBy("condorcet")
    /\ Len(preferences) = 1
    /\ preferences[1][0] = 2
    /\ preferences[1][3] = 0
    /\ result.winner = 2

\* ------------------------------------------------------------------ C13

IsPermutation(row) ==
    /\ DOMAIN row = Positions
    /\ {row[pos] : pos \in Positions} = Candidates

\* C13: a ballot that is not a permutation of 0..4 is rejected before any
\* rule computes on it: no rule returns a RuleResult for a ballot set that
\* holds such a ballot.
C13_MalformedRejected ==
    pc = "done" => \A row \in Rows : IsPermutation(preferences[row])

\* ------------------------------------------------------------------ run files

\* The records a run file holds, in the order they were written.
RECURSIVE RecordsFrom(_, _)
RecordsFrom(content, i) ==
    IF i > Len(content) THEN <<>>
    ELSE (IF content[i].t = "obj" THEN <<content[i].v>> ELSE <<>>)
            \o RecordsFrom(content, i + 1)

Records(r) == RecordsFrom(files[r].content, 1)

\* The run r was closed by end_run.
Closed(r) ==
    /\ files[r].exists
    /\ files[r].content # <<>>
    /\ files[r].content[Len(files[r].content)].t = "]"

\* The run r is inside _run_single.
InProgress(r) == pc = "step" /\ run_id = r

\* ------------------------------------------------------------------ C14

\* C14: within one run the records carry step = 1, 2, ..., max_voters in
\* increasing order without a gap; the record of step k holds exactly k
\* ballots, and its ballot list is the ballot list of step k-1 with one
\* sampled ballot appended at the end.
C14_AppendOnly ==
    \A r \in RunIds :
        LET recs == Records(r)
        IN  /\ Len(recs) <= max_voters
            /\ Closed(r) => Len(recs) = max_voters
            /\ InProgress(r) =>
                  /\ Len(recs) = step - 1
                  /\ prefs_all = IF recs = <<>> THEN <<>>
                                 ELSE recs[Len(recs)].voter_preferences
            /\ \A k \in 1 .. Len(recs) :
                  /\ recs[k].run_id = r
                  /\ recs[k].step = k
                  /\ Len(recs[k].voter_preferences) = k
                  /\ recs[k].voter_preferences[k] \in sim_sample
                  /\ k > 1 => SubSeq(recs[k].voter_preferences, 1, k - 1)
                                 = recs[k - 1].voter_preferences

\* A run closed with max_voters records whose ballots are not all equal.
C14_Witness ==
    /\ pc = "exit"
    /\ Closed(2)
    /\ Len(Records(2)) = max_voters
    /\ LET last == Records(2)[max_voters].voter_preferences
       IN  last[1] # last[max_voters]

\* ------------------------------------------------------------------ C15

\* The four rules applied to a ballot list, as labels.
FromScratch(prefs) ==
    [plurality |-> winner_label(PluralityRule_compute(prefs).winner),
     borda     |-> winner_label(BordaRule_compute(prefs).winner),
     condorcet |-> winner_label(CondorcetRule_compute(prefs).winner),
     irv       |-> winner_label(IRVLoop(prefs, AllActive, <<>>).winner)]

\* The records of all run files.
AllRecords == UNION {Range(Records(r)) : r \in RunIds}

\* The records the step has added to the file of run r: the places of the
\* new record list that the old one does not have.
Written(r, old, new) == (Len(old) + 1) .. Len(new)

\* The step has left the records already in the file of run r as they were
\* (or has emptied the file, as start_run does).
Kept(old, new) ==
    \/ new = <<>>
    \/ Len(old) <= Len(new) /\ SubSeq(new, 1, Len(old)) = old

\* C15: the winners in the record of step k are what the four rules return
\* on the first k ballots of the run, and two records, of any runs, with the
\* same ballot sequence carry the same four winners.  A record is checked
\* when it is written; no later step changes it.
C15_FromScratch ==
    /\ [][\A r \in RunIds :
            LET old == Records(r)
                new == Records(r)'
            IN  /\ Kept(old, new)
                /\ \A k \in Written(r, old, new) :
                      /\ Len(prefs_all') >= k
                      /\ new[k].winners = FromScratch(SubSeq(prefs_all', 1, k))]_vars
    /\ [](\A x, y \in AllRecords :
            x.voter_preferences = y.voter_preferences => x.winners = y.winners)

\* Both runs are closed, hold the same ballot list at step 2 and different
\* lists at the last step; the winners of step 2 differ from those of step 1
\* and have no Condorcet winner.
C15_Witness ==
    /\ pc = "exit"
    /\ Closed(1) /\ Closed(2)
    /\ Records(1)[2].voter_preferences = Records(2)[2].voter_preferences
    /\ Records(1)[max_voters].voter_preferences # Records(2)[max_voters].voter_preferences
    /\ Records(1)[2].winners # Records(1)[1].winners
    /\ Records(1)[2].winners.condorcet = Null

\* ------------------------------------------------------------------ C16

RuleNames == {"plurality", "borda", "condorcet", "irv"}

\* The winner the rule returns on a ballot list.
RuleWinner(rule, prefs) ==
    CASE rule = "plurality" -> PluralityRule_compute(prefs).winner
      [] rule = "borda"     -> BordaRule_compute(prefs).winner
      [] rule = "condorcet" -> CondorcetRule_compute(prefs).winner
      [] rule = "irv"       -> IRVRule_compute(prefs).winner

\* Each entry of the record is the label of the winner its rule returns on
\* the record's ballot list, or null for no winner.
LabelOrNull(rec) ==
    /\ DOMAIN rec.winners = RuleNames
    /\ \A rule \in RuleNames :
          \E w \in {RuleWinner(rule, rec.voter_preferences)} :
              /\ (rec.winners[rule] = Null) <=> (w = None)
              /\ w \in Candidates => rec.winners[rule] = labels[w + 1]
              /\ w = 0 => rec.winners[rule] = "A"

\* C16: in every step record each of the entries plurality, borda, condorcet,
\* irv is the label labels[w] when the rule returned winner w and null
\* exactly when the rule returned no winner; winner 0 is recorded as "A",
\* never as null.  A record is checked when it is written; no later step
\* changes it.
C16_LabelOrNull ==
    [][\A r \in RunIds :
          LET old == Records(r)
              new == Records(r)'
          IN  /\ Kept(old, new)
              /\ \A k \in Written(r, old, new) :
                    LabelOrNull(new[k])]_vars

\* A record in which winner 0 and a missing winner occur together.
C16_Witness ==
    \E rec \in AllRecords :
        /\ rec.winners.plurality = "A"
        /\ rec.winners.condorcet = Null
        /\ rec.winners.irv = "B"
        /\ RuleWinner("plurality", rec.voter_preferences) = 0
        /\ RuleWinner("condorcet", rec.voter_preferences) = None

\* ------------------------------------------------------------------ C20

\* The tokens i..j are one or more records with a separator between each
\* two and none at either end.
RECURSIVE IsElements(_, _, _)
IsElements(content, i, j) ==
    /\ i <= j
    /\ content[i].t = "obj"
    /\ \/ i = j
       \/ /\ i + 2 <= j
          /\ content[i + 1].t = ","
          /\ IsElements(content, i + 2, j)

\* The content is a complete JSON array: "[", elements, "]".
IsJsonArray(content) ==
    /\ Len(content) >= 2
    /\ content[1].t = "["
    /\ content[Len(content)].t = "]"
    /\ Len(content) = 2 \/ IsElements(content, 2, Len(content) - 1)

\* C20: after start_run, n appends in step order with is_last only on the
\* n-th, and end_run, the run file is a well-formed JSON array of exactly n
\* records in step order, with a separator between consecutive records and
\* none after the last; before end_run the content is never a complete JSON
\* array.  _run_single drives the recorder with n = max_voters.
C20_RunFile ==
    \A r \in RunIds :
        LET content == files[r].content
            recs    == Records(r)
        IN  /\ InProgress(r) => files[r].exists /\ ~Closed(r)
            /\ files[r].exists /\ ~Closed(r) =>
                  /\ ~IsJsonArray(content)
                  /\ content[1].t = "["
                  /\ \A i \in 2 .. Len(content) :
                        content[i].t = IF i % 2 = 0 THEN "obj" ELSE ","
                  /\ Len(content) = IF Len(recs) = max_voters
                                    THEN 2 * Len(recs) ELSE 2 * Len(recs) + 1
            /\ Closed(r) =>
                  /\ IsJsonArray(content)
                  /\ Len(recs) = max_voters
                  /\ Len(content) = 2 * max_voters + 1
                  /\ \A k \in 1 .. Len(recs) : recs[k].step = k

\* Run 1 is closed; run 2 has written its last record and is not yet closed.
C20_Witness ==
    /\ Closed(1)
    /\ IsJsonArray(files[1].content)
    /\ InProgress(2)
    /\ step = max_voters + 1
    /\ files[2].content[Len(files[2].content)].t = "obj"

\* ------------------------------------------------------------------ C21

\* C21: in every round of IRVRule.compute on a non-empty ballot set of
\* permutations each ballot gives exactly one vote, to its highest-ranked
\* candidate that is still active: the round's counts sum to the number of
\* ballots n, and every candidate eliminated before the round has count 0.
C21_OneVotePerBallot ==
    (pc = "irv" /\ preferences # <<>>) =>
        \E it \in {IRVIteration(preferences, active, elimination_order)} :
            /\ VecSum(it.counts) = Len(preferences)
            /\ \A c \in Candidates :
                  /\ ~active[c] => it.counts[c] = 0
                  /\ it.counts[c] = TopActiveBallots(c)

\* A round after three eliminations, one of them of a candidate that some
\* ballot ranks first, so that this ballot's vote has moved on.
C21_Witness ==
    /\ pc = "irv"
    /\ Len(preferences) = MaxVoters
    /\ Len(elimination_order) = 3
    /\ \E c \in Candidates : ~active[c] /\ FirstChoiceBallots(c) > 0

\* ------------------------------------------------------------------ C22

\* The candidates passing the code's test on a pairwise matrix for n ballots.
BeatsAllByComplement(w, n) ==
    {a \in Candidates : \A b \in Candidates \ {a} : w[a][b] > n - w[a][b]}

\* The candidates that win every pairwise comparison of the matrix.
BeatsAllByComparison(w) ==
    {a \in Candidates : \A b \in Candidates \ {a} : w[a][b] > w[b][a]}

\* C22: for n permutations the pairwise matrix has wins[a,b] + wins[b,a] = n
\* for a # b and wins[a,a] = 0, so the test wins[a,b] > n - wins[a,b] is the
\* test wins[a,b] > wins[b,a]; at most one candidate passes the beats-all
\* test, and no winner is returned only when none passes.
C22_PairwiseMatrix ==
    ReturnedBy("condorcet") =>
        \E w \in {result.aux.wins} :
            /\ \A a \in Candidates : w[a][a] = 0
            /\ \A a, b \in Candidates : a # b => w[a][b] + w[b][a] = Len(preferences)
            /\ BeatsAllByComplement(w, Len(preferences)) = BeatsAllByComparison(w)
            /\ Cardinality(BeatsAllByComplement(w, Len(preferences))) <= 1
            /\ (result.winner = None) <=> (BeatsAllByComplement(w, Len(preferences)) = {})

\* A Condorcet winner on a full array with a contested pair.
C22_Witness ==
    /\ ReturnedBy("condorcet")
    /\ Len(preferences) = MaxVoters
    /\ result.winner \in Candidates
    /\ \E a, b \in Candidates :
          a # b /\ result.aux.wins[a][b] > 0 /\ result.aux.wins[b][a] > 0

\* ------------------------------------------------------------------ C23

\* Candidate c is the first choice of strictly more than half of the ballots.
FirstOnMajority(c) == FirstChoiceBallots(c) * 2 > Len(preferences)

\* C23: when one candidate is ranked first on strictly more than half of the
\* ballots, PluralityRule, CondorcetRule and IRVRule all return it, and
\* IRVRule returns it in the first round with an empty elimination order.
C23_MajorityCandidate ==
    \A c \in Candidates :
        (pc = "done" /\ FirstOnMajority(c)) =>
            /\ result.rule \in {"plurality", "condorcet", "irv"} => result.winner = c
            /\ result.rule = "irv" =>
                  /\ result.aux.exit = "majority"
                  /\ result.aux.elimination_order = <<>>
                  /\ elimination_order = <<>>
                  /\ active = AllActive

\* IRV has returned a candidate that is first on a bare majority of a full
\* array, with other first choices present.
C23_Witness ==
    /\ ReturnedBy("irv")
    /\ Len(preferences) = MaxVoters
    /\ FirstOnMajority(result.winner)
    /\ (FirstChoiceBallots(result.winner) - 1) * 2 <= Len(preferences)
    /\ result.winner # 0

\* ------------------------------------------------------------------ C24

\* C24: run() with resume enabled goes through the run ids in increasing
\* order, executes exactly the runs whose file does not exist and skips
\* every run whose file exists; a run stopped before end_run has a file, so
\* a later call skips it and never completes or rewrites its file.
C24_ResumeSkipsExisting ==
    /\ [][resume =>
            /\ run_id' >= run_id
            /\ \A r \in RunIds :
                  /\ (pc = "loop" /\ run_id = r /\ files[r].exists) =>
                        /\ pc' = "loop"
                        /\ run_id' = r + 1
                        /\ files' = files
                  /\ (pc = "loop" /\ run_id = r /\ ~files[r].exists) =>
                        /\ pc' = "step"
                        /\ run_id' = r
                        /\ files' = [files EXCEPT ![r] = start_run(NoFile)]
                  /\ (files[r].exists /\ ~InProgress(r)) =>
                        /\ files'[r] = files[r]
                        /\ ~InProgress(r)']_vars
    /\ [](resume =>
            /\ \A r \in RunIds : r < run_id => files[r].exists
            /\ pc = "exit" => run_id = runs + 1)

\* The call has returned: run 1, stopped earlier after its first step, is
\* as it was left, and run 2 was executed with ballots of its own.
C24_Witness ==
    /\ pc = "exit"
    /\ resume
    /\ files[1] = FileAfter(1, 1)
    /\ ~Closed(1)
    /\ Closed(2)
    /\ Len(Records(2)) = max_voters
    /\ Records(2)[max_voters].voter_preferences[max_voters] # perms(0)

====
